---- MODULE Spec2Model ----
(***************************************************************************)
(* A model of the GEDCOM-to-display processor (gedcom_processor):          *)
(*   - the relationship graph GedcomSource keeps (two id-keyed maps),      *)
(*   - eligibility (get_eligible_ids) and assembly (get_family),           *)
(*   - the families.json cache (load_cache, save_cache, is_cache_valid),   *)
(*   - the rotation selector (select_family_id),                           *)
(*   - run() of main.py and main() of generate.py, step by step between   *)
(*     their file reads and writes.                                        *)
(*                                                                         *)
(* Python values are encoded as follows.  An optional string (an id, a     *)
(* year, a sex) is a string, Python's None being the string None.  An      *)
(* optional dict is a record, Python's None / JSON null being the record   *)
(* Null.  A dict is a record whose DOMAIN is the dict's key set, so an     *)
(* omitted key and a key holding null are different values.  A raised      *)
(* exception is the record Raise(kind).                                    *)
(***************************************************************************)
EXTENDS Naturals, Sequences, FiniteSets, TLC

VARIABLES
    gedcom,        \* content of the GEDCOM source file: a SourceFile, or BadSource
    edits,         \* number of fine-grained edits applied to the source so far
    call,          \* the last direct call of a pure function: its arguments and result
    cacheFile,     \* content of families.json
    currentFile,   \* content of current.json
    pc,            \* position of run()
    entry_point,   \* the entry point running: "run" (main.py) or "main" (generate.py)
    current_hash,  \* run(): hash of the source as read at line 35
    cache,         \* run(): what load_cache returned
    families,      \* run(): the family list in use
    last_id,       \* run(): previous selection read from current.json
    selected_id,   \* run(): the id select_family_id returned
    parsed,        \* run(): the graph GedcomSource built (Null when not parsed in this run)
    outcome        \* how the last finished run ended

vars == <<gedcom, edits, call, cacheFile, currentFile, pc, entry_point, current_hash,
          cache, families, last_id, selected_id, parsed, outcome>>

runVars == <<pc, entry_point, current_hash, cache, families, last_id, selected_id,
             parsed, outcome>>

----------------------------------------------------------------------------
(* Bounds of the model *)

MaxEdits == 2
MaxFams == 2
MaxChildren == 3
MaxIds == 3
MaxText == 6

----------------------------------------------------------------------------
(* Python values *)

None == "None"
Null == [null |-> TRUE]
Raise(kind) == [raise |-> kind]
IsRaise(v) == "raise" \in DOMAIN v

\* dict.get(key): the value, or None when the key is absent
Get(d, k) == IF k \in DOMAIN d THEN d[k] ELSE Null

\* the dict without one key
Without(d, k) == [x \in DOMAIN d \ {k} |-> d[x]]

\* the elements of a sequence
Range(s) == {s[i] : i \in 1..Len(s)}

----------------------------------------------------------------------------
(* The relationship graph: GedcomSource._individuals and ._families.       *)
(* Python dicts iterate in insertion order, which indi_order records.      *)

Ind == {"I1", "I2", "I3", "I4", "I5", "I6"}
Fam == {"F1", "F2", "F3"}

Person(first, last, sex, birth, death, fams, famc) ==
    [first_name |-> first, last_name |-> last, sex |-> sex, birth |-> birth,
     death |-> death, fams |-> fams, famc |-> famc]

Family(husb, wife, children) ==
    [husb |-> husb, wife |-> wife, children |-> children]

\* John Doe and Jane Smith (F1), their children James (married to Alice, F2)
\* and Sarah, and John's father William (F3).
Fixture ==
    [individuals |->
        [p \in Ind |->
           CASE p = "I1" -> Person("John", "Doe", "M", "1850", "1920", <<"F1">>, "F3")
             [] p = "I2" -> Person("Jane", "Smith", "F", "1855", None, <<"F1">>, None)
             [] p = "I3" -> Person("James", "Doe", "M", "1880", None, <<"F2">>, "F1")
             [] p = "I4" -> Person("Alice", "Brown", "F", None, None, <<"F2">>, None)
             [] p = "I5" -> Person("William", "Doe", "M", "1820", "1890", <<"F3">>, None)
             [] p = "I6" -> Person("Sarah", "Doe", "F", "1885", None, <<>>, "F1")],
     indi_order |-> <<"I1", "I2", "I3", "I4", "I5", "I6">>,
     families |->
        [f \in Fam |->
           CASE f = "F1" -> Family("I1", "I2", <<"I3", "I6">>)
             [] f = "F2" -> Family("I3", "I4", <<>>)
             [] f = "F3" -> Family("I5", None, <<"I1">>)]]

\* The content of a source file: the INDI and FAM records ged4py yields, and
\* whether the file also holds a NOTE record, which GedcomSource never reads.
SourceFile(g, note) == [graph |-> g, note |-> note]

\* A source file ged4py cannot tokenize
BadSource == [bad |-> TRUE]

\* GedcomSource.__init__: the graph, or ged4py's parse error
GedcomSource(content) ==
    IF content = BadSource THEN Raise("ParseError") ELSE content.graph

----------------------------------------------------------------------------
(* gedcom_source.py: _extract_year.  A text is the record Text(chars) of   *)
(* its characters, Python's None being Null.  The characters of the model  *)
(* are two digits, a letter (a word character, as the underscore is) and a *)
(* separator (a space, a dot, a dash, a slash: not a word character).      *)

Text(chars) == [text |-> chars]

Chars == {"1", "2", "a", "-"}
IsDigit(c) == c \in {"1", "2"}
IsWordChar(c) == c \in {"1", "2", "a"}

\* the regular expression's \b before position k of s (k = Len(s) + 1: at the end)
WordBoundary(s, k) ==
    LET before == k > 1 /\ IsWordChar(s[k - 1])
        after == k <= Len(s) /\ IsWordChar(s[k])
    IN  before # after

\* re.search(r'\b(\d{4})\b', date_str): the positions it can match at
MatchStarts(s) ==
    {i \in 1..Len(s) :
        /\ i + 3 <= Len(s)
        /\ WordBoundary(s, i)
        /\ \A j \in i..(i + 3) : IsDigit(s[j])
        /\ WordBoundary(s, i + 4)}

\* date_value is the date as ged4py holds it, which str() renders as .text
_extract_year(date_value) ==
    IF date_value = Null THEN Null
    ELSE LET date_str == date_value.text
             starts == MatchStarts(date_str)
             first == CHOOSE i \in starts : \A j \in starts : i <= j
         IN  IF starts = {} THEN Null
             ELSE Text(SubSeq(date_str, first, first + 3))

----------------------------------------------------------------------------
(* schema.py *)

make_person(first_name, last_name, birth, death, child) ==
    LET person == [first_name |-> first_name, last_name |-> last_name,
                   birth |-> birth, death |-> death]
    IN  IF child # None THEN person @@ [child |-> (child = "True")] ELSE person

make_family_entry(family_id, subject, spouse, subject_parents, spouse_parents, children) ==
    [id |-> family_id, subject |-> subject, spouse |-> spouse,
     subject_parents |-> subject_parents, spouse_parents |-> spouse_parents,
     children |-> children]

\* Mutant: the id is copied to last_family_id and kept
family_to_current_keep_id(family) ==
    family @@ [last_family_id |-> family["id"]]

family_to_current(family) ==
    Without(family, "id") @@ [last_family_id |-> family["id"]]

----------------------------------------------------------------------------
(* gedcom_source.py: eligibility *)

_get_spouse_id(person_id, family) ==
    IF person_id = family.husb THEN family.wife
    ELSE IF person_id = family.wife THEN family.husb
    ELSE None

\* <<father_id, mother_id>>; person may be Null
_get_parents(g, person) ==
    IF person = Null \/ person.famc = None THEN <<None, None>>
    ELSE LET family == Get(g.families, person.famc)
         IN  IF family = Null THEN <<None, None>>
             ELSE <<family.husb, family.wife>>

_is_eligible(g, person_id, person) ==
    IF person.fams = <<>> THEN FALSE
    ELSE LET family == Get(g.families, person.fams[1])
         IN  IF family = Null \/ family.children = <<>> THEN FALSE
             ELSE LET spouse_id == _get_spouse_id(person_id, family)
                      spouse == IF spouse_id # None THEN Get(g.individuals, spouse_id)
                                ELSE Null
                  IN  IF spouse = Null THEN FALSE
                      ELSE LET person_parents == _get_parents(g, person)
                               spouse_parents == _get_parents(g, spouse)
                           IN  \/ person_parents[1] # None
                               \/ person_parents[2] # None
                               \/ spouse_parents[1] # None
                               \/ spouse_parents[2] # None

get_eligible_ids(g) ==
    SelectSeq(g.indi_order, LAMBDA person_id :
                               _is_eligible(g, person_id, g.individuals[person_id]))

----------------------------------------------------------------------------
(* gedcom_source.py: assembly *)

_person_to_dict(person) ==
    IF person = Null THEN Null
    ELSE make_person(person.first_name, person.last_name, person.birth, person.death, None)

\* Mutant: a child without a spouse gets an explicit null in its paired slot
_make_child_entry_null(g, child_id, child) ==
    LET child_dict == make_person(child.first_name, child.last_name, child.birth,
                                  child.death, "True")
        child_family == IF child.fams # <<>> THEN Get(g.families, child.fams[1]) ELSE Null
        child_spouse_id == IF child_family # Null THEN _get_spouse_id(child_id, child_family)
                           ELSE None
        child_spouse == IF child_spouse_id # None THEN Get(g.individuals, child_spouse_id)
                        ELSE Null
    IN  [first |-> child_dict, second |-> _person_to_dict(child_spouse)]

\* Mutant: the child's snapshot is built without the child marker
_make_child_entry_unmarked(g, child_id, child) ==
    LET child_dict == make_person(child.first_name, child.last_name, child.birth,
                                  child.death, None)
        child_family == IF child.fams # <<>> THEN Get(g.families, child.fams[1]) ELSE Null
        child_spouse_id == IF child_family # Null THEN _get_spouse_id(child_id, child_family)
                           ELSE None
        child_spouse == IF child_spouse_id # None THEN Get(g.individuals, child_spouse_id)
                        ELSE Null
    IN  IF child_spouse # Null
        THEN [first |-> child_dict, second |-> _person_to_dict(child_spouse)]
        ELSE [first |-> child_dict]

_make_child_entry(g, child_id, child) ==
    LET child_dict == make_person(child.first_name, child.last_name, child.birth,
                                  child.death, "True")
        child_family == IF child.fams # <<>> THEN Get(g.families, child.fams[1]) ELSE Null
        child_spouse_id == IF child_family # Null THEN _get_spouse_id(child_id, child_family)
                           ELSE None
        child_spouse == IF child_spouse_id # None THEN Get(g.individuals, child_spouse_id)
                        ELSE Null
    IN  IF child_spouse # Null
        THEN [first |-> child_dict, second |-> _person_to_dict(child_spouse)]
        ELSE [first |-> child_dict]

\* Mutant: the entries of the children that resolve, last child first
children_data_reversed(g, child_ids) ==
    LET known == SelectSeq(child_ids, LAMBDA c : c \in DOMAIN g.individuals)
        n == Len(known)
    IN  [i \in 1..n |-> _make_child_entry(g, known[n + 1 - i],
                                           g.individuals[known[n + 1 - i]])]

\* lines 229-235: the entries of the children that resolve, in the family's order
RECURSIVE children_data(_, _)
children_data(g, child_ids) ==
    IF child_ids = <<>> THEN <<>>
    ELSE LET child == Get(g.individuals, Head(child_ids))
             rest == children_data(g, Tail(child_ids))
         IN  IF child # Null THEN <<_make_child_entry(g, Head(child_ids), child)>> \o rest
             ELSE rest

\* Mutant: the spouse and the children are taken from the last spousal family
assemble_last_family(g, person_id, person) ==
    LET family == IF person.fams # <<>> THEN Get(g.families, person.fams[Len(person.fams)]) ELSE Null
        spouse_id == IF family # Null THEN _get_spouse_id(person_id, family) ELSE None
        spouse == IF spouse_id # None THEN Get(g.individuals, spouse_id) ELSE Null
        subject_pp == _get_parents(g, person)
        subject_father == IF subject_pp[1] # None THEN Get(g.individuals, subject_pp[1])
                          ELSE Null
        subject_mother == IF subject_pp[2] # None THEN Get(g.individuals, subject_pp[2])
                          ELSE Null
        spouse_pp == IF spouse # Null THEN _get_parents(g, spouse) ELSE <<None, None>>
        spouse_father == IF spouse_pp[1] # None THEN Get(g.individuals, spouse_pp[1])
                         ELSE Null
        spouse_mother == IF spouse_pp[2] # None THEN Get(g.individuals, spouse_pp[2])
                         ELSE Null
    IN  make_family_entry(
            person_id,
            _person_to_dict(person),
            IF spouse # Null THEN _person_to_dict(spouse) ELSE Null,
            [father |-> _person_to_dict(subject_father),
             mother |-> _person_to_dict(subject_mother)],
            [father |-> _person_to_dict(spouse_father),
             mother |-> _person_to_dict(spouse_mother)],
            IF family # Null THEN children_data(g, family.children) ELSE <<>>)

\* get_family past its lookup of person_id (lines 208-250)
assemble(g, person_id, person) ==
    LET family == IF person.fams # <<>> THEN Get(g.families, person.fams[1]) ELSE Null
        spouse_id == IF family # Null THEN _get_spouse_id(person_id, family) ELSE None
        spouse == IF spouse_id # None THEN Get(g.individuals, spouse_id) ELSE Null
        subject_pp == _get_parents(g, person)
        subject_father == IF subject_pp[1] # None THEN Get(g.individuals, subject_pp[1])
                          ELSE Null
        subject_mother == IF subject_pp[2] # None THEN Get(g.individuals, subject_pp[2])
                          ELSE Null
        spouse_pp == IF spouse # Null THEN _get_parents(g, spouse) ELSE <<None, None>>
        spouse_father == IF spouse_pp[1] # None THEN Get(g.individuals, spouse_pp[1])
                         ELSE Null
        spouse_mother == IF spouse_pp[2] # None THEN Get(g.individuals, spouse_pp[2])
                         ELSE Null
    IN  make_family_entry(
            person_id,
            _person_to_dict(person),
            IF spouse # Null THEN _person_to_dict(spouse) ELSE Null,
            [father |-> _person_to_dict(subject_father),
             mother |-> _person_to_dict(subject_mother)],
            [father |-> _person_to_dict(spouse_father),
             mother |-> _person_to_dict(spouse_mother)],
            IF family # Null THEN children_data(g, family.children) ELSE <<>>)

\* Mutant: the first spousal family is looked up with [] instead of .get
get_family_strict(g, person_id) ==
    LET person == Get(g.individuals, person_id)
    IN  IF person = Null THEN Raise("ValueError")
        ELSE IF person.fams # <<>> /\ person.fams[1] \notin DOMAIN g.families
             THEN Raise("KeyError")
             ELSE assemble(g, person_id, person)

get_family(g, person_id) ==
    LET person == Get(g.individuals, person_id)
    IN  IF person = Null THEN Raise("ValueError")
        ELSE assemble(g, person_id, person)

----------------------------------------------------------------------------
(* The source file as GedcomSource.__init__ parses it, under edits of its   *)
(* records.  A reference may name a record the file does not hold.          *)

\* the INDI record p is deleted
del_indi(g, p) ==
    [g EXCEPT !.individuals = Without(@, p),
              !.indi_order = SelectSeq(@, LAMBDA q : q # p)]

\* the FAM record f is deleted
del_fam(g, f) == [g EXCEPT !.families = Without(@, f)]

\* the HUSB / WIFE line of f is set to v, or removed (None)
set_husb(g, f, v) == [g EXCEPT !.families[f].husb = v]
set_wife(g, f, v) == [g EXCEPT !.families[f].wife = v]

\* a CHIL line is added at the end of f; all CHIL lines of f are removed
append_child(g, f, p) == [g EXCEPT !.families[f].children = Append(@, p)]
clear_children(g, f) == [g EXCEPT !.families[f].children = <<>>]

\* the first FAMC line of p is set to v, or all are removed (None)
set_famc(g, p, v) == [g EXCEPT !.individuals[p].famc = v]

\* a FAMS line is added before the others of p; all FAMS lines of p are removed
prepend_fams(g, p, f) == [g EXCEPT !.individuals[p].fams = <<f>> \o @]
clear_fams(g, p) == [g EXCEPT !.individuals[p].fams = <<>>]

----------------------------------------------------------------------------
(* State of run() between runs *)

NoCall == [op |-> "none"]
MissingFile == [kind |-> "missing"]

RunIdle ==
    /\ pc = "idle"
    /\ entry_point = None
    /\ current_hash = None
    /\ cache = Null
    /\ families = <<>>
    /\ last_id = None
    /\ selected_id = None
    /\ parsed = Null
    /\ outcome = "none"

----------------------------------------------------------------------------
(* SpecGraph: the source is edited record by record, then get_eligible_ids *)
(* or get_family is called on the graph parsed from it.  A behaviour is a  *)
(* sequence of edits followed by one call, whose result call keeps.        *)

InitGraph ==
    /\ gedcom = SourceFile(Fixture, FALSE)
    /\ edits = 0
    /\ call = NoCall
    /\ cacheFile = MissingFile
    /\ currentFile = MissingFile
    /\ RunIdle

Edited(g) ==
    /\ call = NoCall
    /\ edits < MaxEdits
    /\ gedcom' = SourceFile(g, gedcom.note)
    /\ edits' = edits + 1
    /\ call' = NoCall
    /\ UNCHANGED <<cacheFile, currentFile, runVars>>

DelIndi == \E p \in DOMAIN gedcom.graph.individuals : Edited(del_indi(gedcom.graph, p))

DelFam == \E f \in DOMAIN gedcom.graph.families : Edited(del_fam(gedcom.graph, f))

SetHusb ==
    \E f \in DOMAIN gedcom.graph.families, v \in Ind \cup {None} :
        /\ v # gedcom.graph.families[f].husb
        /\ Edited(set_husb(gedcom.graph, f, v))

SetWife ==
    \E f \in DOMAIN gedcom.graph.families, v \in Ind \cup {None} :
        /\ v # gedcom.graph.families[f].wife
        /\ Edited(set_wife(gedcom.graph, f, v))

AppendChild ==
    \E f \in DOMAIN gedcom.graph.families, p \in Ind :
        /\ Len(gedcom.graph.families[f].children) < MaxChildren
        /\ Edited(append_child(gedcom.graph, f, p))

ClearChildren ==
    \E f \in DOMAIN gedcom.graph.families :
        /\ gedcom.graph.families[f].children # <<>>
        /\ Edited(clear_children(gedcom.graph, f))

SetFamc ==
    \E p \in DOMAIN gedcom.graph.individuals, v \in Fam \cup {None} :
        /\ v # gedcom.graph.individuals[p].famc
        /\ Edited(set_famc(gedcom.graph, p, v))

PrependFams ==
    \E p \in DOMAIN gedcom.graph.individuals, f \in Fam :
        /\ Len(gedcom.graph.individuals[p].fams) < MaxFams
        /\ Edited(prepend_fams(gedcom.graph, p, f))

ClearFams ==
    \E p \in DOMAIN gedcom.graph.individuals :
        /\ gedcom.graph.individuals[p].fams # <<>>
        /\ Edited(clear_fams(gedcom.graph, p))

CallGetEligibleIds ==
    /\ call = NoCall
    /\ call' = [op |-> "get_eligible_ids", ret |-> get_eligible_ids(gedcom.graph)]
    /\ UNCHANGED <<gedcom, edits, cacheFile, currentFile, runVars>>

CallGetFamily ==
    \E person_id \in Ind :
        /\ call = NoCall
        /\ call' = [op |-> "get_family", person_id |-> person_id,
                    ret |-> get_family(gedcom.graph, person_id)]
        /\ UNCHANGED <<gedcom, edits, cacheFile, currentFile, runVars>>

NextGraph ==
    \/ DelIndi
    \/ DelFam
    \/ SetHusb
    \/ SetWife
    \/ AppendChild
    \/ ClearChildren
    \/ SetFamc
    \/ PrependFams
    \/ ClearFams
    \/ CallGetEligibleIds
    \/ CallGetFamily

SpecGraph == InitGraph /\ [][NextGraph]_vars

----------------------------------------------------------------------------
(* Files on disk.  A file opened with mode 'w' is truncated at once and     *)
(* holds the whole text only once the writes are flushed, at close at the   *)
(* latest.                                                                  *)

EmptyFile == [kind |-> "empty"]
PartialFile(v) == [kind |-> "partial", of |-> v]
JsonFile(v) == [kind |-> "json", value |-> v]
\* text that is not JSON
GarbageFile == [kind |-> "garbage"]
\* a file that cannot be opened or decoded as text
UnreadableFile == [kind |-> "unreadable"]

\* a JSON array, number or string at the top level of a document
NotADict == [not_a_dict |-> TRUE]
IsDict(v) == v # Null /\ v # NotADict

\* dict.get(key) of a string-valued key: the value, or None
GetStr(d, k) == IF k \in DOMAIN d THEN d[k] ELSE None

Return(v) == [ret |-> v]

\* open(path) followed by json.load(f), for a file that exists
json_load(file) ==
    CASE file.kind = "json" -> file.value
      [] file.kind \in {"empty", "partial", "garbage"} -> Raise("JSONDecodeError")
      [] file.kind = "unreadable" -> Raise("OSError")

----------------------------------------------------------------------------
(* cache.py *)

\* The source contents of the run-level model: the fixture (two eligible
\* ids), the fixture with a NOTE record added, a file with three eligible
\* ids, with one, with none, and a file that does not parse.
SrcTwo == SourceFile(Fixture, FALSE)
SrcTwoNote == SourceFile(Fixture, TRUE)
SrcThree == SourceFile(clear_fams(append_child(Fixture, "F2", "I6"), "I4"), FALSE)
SrcOne == SourceFile(clear_fams(Fixture, "I2"), FALSE)
SrcNone == SourceFile(clear_children(Fixture, "F1"), FALSE)

SourceSeq == <<SrcTwo, SrcTwoNote, SrcThree, SrcOne, SrcNone, BadSource>>
Sources == Range(SourceSeq)
Digests == <<"d1", "d2", "d3", "d4", "d5", "d6">>

\* SHA-256 of the file's bytes, as hex: one digest per content, and no two
\* contents of the model share a digest.
compute_file_hash(content) ==
    Digests[CHOOSE i \in 1..Len(SourceSeq) : SourceSeq[i] = content]

load_cache(file) ==
    IF file.kind = "missing" THEN Null
    ELSE LET r == json_load(file)
         IN  IF r = Raise("JSONDecodeError") THEN Null ELSE r

\* the dict save_cache dumps
cache_record(gedcom_hash, fams) == [gedcom_hash |-> gedcom_hash, families |-> fams]

\* Mutant: the stored hash is read under the wrong key
is_cache_valid_wrong_key(c, hash) ==
    IF c = Null THEN Return(FALSE)
    ELSE IF c = NotADict THEN Raise("AttributeError")
    ELSE Return(GetStr(c, "hash") = hash)

is_cache_valid(c, hash) ==
    IF c = Null THEN Return(FALSE)
    ELSE IF c = NotADict THEN Raise("AttributeError")
    ELSE Return(GetStr(c, "gedcom_hash") = hash)

----------------------------------------------------------------------------
(* selector.py *)

\* Mutant: the previous selection is not filtered out
select_family_id_nofilter(eligible_ids, last) ==
    IF eligible_ids = <<>> THEN {Raise("ValueError")}
    ELSE IF Len(eligible_ids) = 1 THEN {Return(eligible_ids[1])}
    ELSE {Return(id) : id \in Range(eligible_ids)}

\* Mutant: a single id that is the previous selection is refused
select_family_id_no_repeat(eligible_ids, last) ==
    IF eligible_ids = <<>> THEN {Raise("ValueError")}
    ELSE IF Len(eligible_ids) = 1
         THEN IF eligible_ids[1] = last THEN {Raise("ValueError")}
              ELSE {Return(eligible_ids[1])}
    ELSE LET candidates == SelectSeq(eligible_ids, LAMBDA id : id # last)
         IN  IF candidates = <<>> THEN {Return(id) : id \in Range(eligible_ids)}
             ELSE {Return(id) : id \in Range(candidates)}

\* Mutant: the first candidate is returned instead of a random one
select_family_id_first(eligible_ids, last) ==
    IF eligible_ids = <<>> THEN {Raise("ValueError")}
    ELSE IF Len(eligible_ids) = 1 THEN {Return(eligible_ids[1])}
    ELSE LET candidates == SelectSeq(eligible_ids, LAMBDA id : id # last)
         IN  IF candidates = <<>> THEN {Return(eligible_ids[1])}
             ELSE {Return(candidates[1])}

\* the ids random.choice may return, or the ValueError
select_family_id(eligible_ids, last) ==
    IF eligible_ids = <<>> THEN {Raise("ValueError")}
    ELSE IF Len(eligible_ids) = 1 THEN {Return(eligible_ids[1])}
    ELSE LET candidates == SelectSeq(eligible_ids, LAMBDA id : id # last)
         IN  IF candidates = <<>> THEN {Return(id) : id \in Range(eligible_ids)}
             ELSE {Return(id) : id \in Range(candidates)}

----------------------------------------------------------------------------
(* main.py: run(), and generate.py: main().  The two entry points run the   *)
(* same steps; main() reports an empty eligible list by sys.exit(1) and    *)
(* has no check of the family list in use (run(), lines 57-58).            *)

\* Mutant: the entries are built in the reverse of the eligibility order
rebuild_reversed(content) ==
    LET source == GedcomSource(content)
    IN  IF IsRaise(source) THEN source
        ELSE LET eligible_ids == get_eligible_ids(source)
                 n == Len(eligible_ids)
             IN  IF eligible_ids = <<>> THEN Raise("ValueError")
                 ELSE Return([i \in 1..n |-> get_family(source, eligible_ids[n + 1 - i])])

\* lines 41-48: parse, eligibility, one entry per eligible id
rebuild(content) ==
    LET source == GedcomSource(content)
    IN  IF IsRaise(source) THEN source
        ELSE LET eligible_ids == get_eligible_ids(source)
                 entries == [i \in 1..Len(eligible_ids) |->
                                get_family(source, eligible_ids[i])]
             IN  IF eligible_ids = <<>> THEN Raise("ValueError")
                 ELSE IF \E i \in 1..Len(entries) : IsRaise(entries[i])
                      THEN Raise("ValueError")
                 ELSE Return(entries)

\* Mutant: the previous selection is read under the cache's key, id
read_last_id_wrong_key(file) ==
    IF file.kind = "missing" THEN Return(None)
    ELSE LET existing == json_load(file)
         IN  IF existing = Raise("JSONDecodeError") THEN Return(None)
             ELSE IF IsRaise(existing) THEN existing
             ELSE IF ~IsDict(existing) THEN Raise("AttributeError")
             ELSE Return(GetStr(existing, "id"))

\* lines 61-68: the previous selection
read_last_id(file) ==
    IF file.kind = "missing" THEN Return(None)
    ELSE LET existing == json_load(file)
         IN  IF existing = Raise("JSONDecodeError") THEN Return(None)
             ELSE IF IsRaise(existing) THEN existing
             ELSE IF ~IsDict(existing) THEN Raise("AttributeError")
             ELSE Return(GetStr(existing, "last_family_id"))

\* line 71
family_ids(fams) == [i \in 1..Len(fams) |-> fams[i].id]

\* line 75: the first family holding the id
selected_family(fams, id) ==
    fams[CHOOSE i \in 1..Len(fams) :
            /\ fams[i].id = id
            /\ \A j \in 1..(i - 1) : fams[j].id # id]

\* the run ends, by returning ("ok") or by an exception
Finish(how) ==
    /\ pc' = "idle"
    /\ entry_point' = None
    /\ current_hash' = None
    /\ cache' = Null
    /\ families' = <<>>
    /\ last_id' = None
    /\ selected_id' = None
    /\ parsed' = Null
    /\ outcome' = how

\* line 35 (generate.py, line 59)
Start ==
    /\ pc = "idle"
    /\ pc' = "load"
    /\ \E e \in {"run", "main"} : entry_point' = e
    /\ current_hash' = compute_file_hash(gedcom)
    /\ outcome' = "running"
    /\ UNCHANGED <<gedcom, edits, call, cacheFile, currentFile, cache, families,
                   last_id, selected_id, parsed>>

\* lines 36-38
LoadCache ==
    /\ pc = "load"
    /\ LET c == load_cache(cacheFile)
           valid == is_cache_valid(c, current_hash)
       IN  IF IsRaise(c) THEN Finish(c.raise)
           ELSE IF IsRaise(valid) THEN Finish(valid.raise)
           ELSE /\ cache' = c
                /\ pc' = IF valid.ret THEN "use_cache" ELSE "parse"
                /\ UNCHANGED <<entry_point, current_hash, families, last_id,
                               selected_id, parsed, outcome>>
    /\ UNCHANGED <<gedcom, edits, call, cacheFile, currentFile>>

\* lines 41-48 (generate.py, lines 63-72: no eligible id ends in sys.exit(1))
Parse ==
    /\ pc = "parse"
    /\ LET r == rebuild(gedcom)
       IN  IF IsRaise(r)
           THEN Finish(IF entry_point = "main" /\ r.raise = "ValueError"
                       THEN "SystemExit" ELSE r.raise)
           ELSE /\ families' = r.ret
                /\ parsed' = gedcom.graph
                /\ pc' = "save_open"
                /\ UNCHANGED <<entry_point, current_hash, cache, last_id, selected_id,
                               outcome>>
    /\ UNCHANGED <<gedcom, edits, call, cacheFile, currentFile>>

\* save_cache, line 56: open(cache_path, 'w')
SaveOpen ==
    /\ pc = "save_open"
    /\ cacheFile' = EmptyFile
    /\ pc' = "save_write"
    /\ UNCHANGED <<gedcom, edits, call, currentFile, entry_point, current_hash, cache,
                   families, last_id, selected_id, parsed, outcome>>

\* save_cache, line 57: json.dump fills the buffer, which is flushed
SaveFlush ==
    /\ pc = "save_write"
    /\ cacheFile = EmptyFile
    /\ cacheFile' = PartialFile(cache_record(current_hash, families))
    /\ UNCHANGED <<gedcom, edits, call, currentFile, runVars>>

\* save_cache, line 57: the file is closed; then run(), lines 57-58
SaveClose ==
    /\ pc = "save_write"
    /\ cacheFile' = JsonFile(cache_record(current_hash, families))
    /\ IF entry_point = "run" /\ families = <<>> THEN Finish("ValueError")
       ELSE /\ pc' = "read_last"
            /\ UNCHANGED <<entry_point, current_hash, cache, families, last_id,
                           selected_id, parsed, outcome>>
    /\ UNCHANGED <<gedcom, edits, call, currentFile>>

\* lines 54-58 (generate.py, lines 73-75, where the list is not checked)
UseCache ==
    /\ pc = "use_cache"
    /\ IF "families" \notin DOMAIN cache THEN Finish("KeyError")
       ELSE IF entry_point = "run" /\ cache.families = <<>> THEN Finish("ValueError")
       ELSE /\ families' = cache.families
            /\ pc' = "read_last"
            /\ UNCHANGED <<entry_point, current_hash, cache, last_id, selected_id,
                           parsed, outcome>>
    /\ UNCHANGED <<gedcom, edits, call, cacheFile, currentFile>>

\* lines 61-68 (generate.py, lines 78-84)
ReadLast ==
    /\ pc = "read_last"
    /\ LET r == read_last_id(currentFile)
       IN  IF IsRaise(r) THEN Finish(r.raise)
           ELSE /\ last_id' = r.ret
                /\ pc' = "select"
                /\ UNCHANGED <<entry_point, current_hash, cache, families, selected_id,
                               parsed, outcome>>
    /\ UNCHANGED <<gedcom, edits, call, cacheFile, currentFile>>

\* lines 71-76 (generate.py, lines 87-91)
Select ==
    /\ pc = "select"
    /\ \E r \in select_family_id(family_ids(families), last_id) :
          IF IsRaise(r) THEN Finish(r.raise)
          ELSE /\ selected_id' = r.ret
               /\ pc' = "write_open"
               /\ UNCHANGED <<entry_point, current_hash, cache, families, last_id,
                              parsed, outcome>>
    /\ UNCHANGED <<gedcom, edits, call, cacheFile, currentFile>>

\* line 79: open(output_path, 'w')
WriteOpen ==
    /\ pc = "write_open"
    /\ currentFile' = EmptyFile
    /\ pc' = "write_close"
    /\ UNCHANGED <<gedcom, edits, call, cacheFile, entry_point, current_hash, cache,
                   families, last_id, selected_id, parsed, outcome>>

\* line 80: json.dump, and the file is closed; the run returns
WriteClose ==
    /\ pc = "write_close"
    /\ currentFile' = JsonFile(family_to_current(selected_family(families, selected_id)))
    /\ Finish("ok")
    /\ UNCHANGED <<gedcom, edits, call, cacheFile>>

----------------------------------------------------------------------------
(* The environment of run(): the source file is edited at any time; between *)
(* runs families.json and current.json may be replaced by anything.         *)

EditSource ==
    /\ \E content \in Sources \ {gedcom} : gedcom' = content
    /\ UNCHANGED <<edits, call, cacheFile, currentFile, runVars>>

TamperedCaches ==
    {MissingFile, GarbageFile, UnreadableFile, JsonFile(Null), JsonFile(NotADict),
     JsonFile([families |-> rebuild(SrcTwo).ret]),
     JsonFile([gedcom_hash |-> compute_file_hash(gedcom)]),
     JsonFile(cache_record(compute_file_hash(gedcom), <<>>)),
     JsonFile(cache_record(compute_file_hash(gedcom),
                           <<get_family(Fixture, "I1"), get_family(Fixture, "I1")>>)),
     JsonFile(cache_record("d0", rebuild(SrcOne).ret))}

TamperCache ==
    /\ pc = "idle"
    /\ \E file \in TamperedCaches \ {cacheFile} : cacheFile' = file
    /\ UNCHANGED <<gedcom, edits, call, currentFile, runVars>>

TamperedCurrents ==
    {MissingFile, GarbageFile, UnreadableFile, JsonFile(Null), JsonFile(NotADict),
     JsonFile([subject |-> Null]),
     JsonFile([last_family_id |-> "I9"])}

TamperCurrent ==
    /\ pc = "idle"
    /\ \E file \in TamperedCurrents \ {currentFile} : currentFile' = file
    /\ UNCHANGED <<gedcom, edits, call, cacheFile, runVars>>

Init ==
    /\ gedcom = SrcTwo
    /\ edits = 0
    /\ call = NoCall
    /\ cacheFile = MissingFile
    /\ currentFile = MissingFile
    /\ RunIdle

Next ==
    \/ Start
    \/ LoadCache
    \/ Parse
    \/ SaveOpen
    \/ SaveFlush
    \/ SaveClose
    \/ UseCache
    \/ ReadLast
    \/ Select
    \/ WriteOpen
    \/ WriteClose
    \/ EditSource
    \/ TamperCache
    \/ TamperCurrent

Spec == Init /\ [][Next]_vars

----------------------------------------------------------------------------
(* SpecRuns: runs of either entry point and edits of the source, with      *)
(* families.json written by the program only.                              *)

NextRuns ==
    \/ Start
    \/ LoadCache
    \/ Parse
    \/ SaveOpen
    \/ SaveFlush
    \/ SaveClose
    \/ UseCache
    \/ ReadLast
    \/ Select
    \/ WriteOpen
    \/ WriteClose
    \/ EditSource
    \/ TamperCurrent

SpecRuns == Init /\ [][NextRuns]_vars

----------------------------------------------------------------------------
(* SpecPure: select_family_id, is_cache_valid and family_to_current called  *)
(* directly: on ids and previous selections of every shape, on what         *)
(* load_cache returns for every kind of cache file, and on the entries      *)
(* get_family builds.                                                       *)

IdPool == {"I1", "I2", "I3"}
IdSeqs == UNION {[1..n -> IdPool] : n \in 0..MaxIds}
LastIds == IdPool \cup {None, "I9"}

SampleCacheFiles ==
    {MissingFile, EmptyFile, GarbageFile, UnreadableFile, JsonFile(Null),
     JsonFile(NotADict), JsonFile([families |-> <<>>])}
    \cup {PartialFile(cache_record(d, <<>>)) : d \in {"d1", "d2"}}
    \cup {JsonFile(cache_record(d, <<>>)) : d \in {"d1", "d2"}}
    \cup {JsonFile([gedcom_hash |-> d]) : d \in {"d1", "d2"}}

CallSelectFamilyId ==
    /\ \E ids \in IdSeqs, last \in LastIds :
          \E r \in select_family_id(ids, last) :
              call' = [op |-> "select_family_id", eligible_ids |-> ids,
                       last_id |-> last, ret |-> r]
    /\ UNCHANGED <<gedcom, edits, cacheFile, currentFile, runVars>>

CallIsCacheValid ==
    /\ \E file \in SampleCacheFiles, hash \in {"d1", "d2"} :
          /\ ~IsRaise(load_cache(file))
          /\ call' = [op |-> "is_cache_valid", file |-> file,
                      current_hash |-> hash,
                      ret |-> is_cache_valid(load_cache(file), hash)]
    /\ UNCHANGED <<gedcom, edits, cacheFile, currentFile, runVars>>

\* entries of every shape: null spouse, null parents, children with and
\* without a paired spouse, no children
SampleGraphs ==
    {Fixture, SrcThree.graph, SrcOne.graph, del_indi(Fixture, "I5"),
     del_fam(Fixture, "F1")}
SampleEntries ==
    UNION {{get_family(g, p) : p \in DOMAIN g.individuals} : g \in SampleGraphs}

CallFamilyToCurrent ==
    /\ \E family \in SampleEntries :
          call' = [op |-> "family_to_current", family |-> family,
                   ret |-> family_to_current(family)]
    /\ UNCHANGED <<gedcom, edits, cacheFile, currentFile, runVars>>

NextPure ==
    \/ CallSelectFamilyId
    \/ CallIsCacheValid
    \/ CallFamilyToCurrent

SpecPure == Init /\ [][NextPure]_vars

----------------------------------------------------------------------------
(* SpecYear: _extract_year called once, on any date text of the model's    *)
(* characters.                                                             *)

\* every text of at most MaxText characters, longer ones that hold two runs
\* of digits, and the date that is None
Texts == UNION {[1..n -> Chars] : n \in 0..MaxText}
LongTexts ==
    {<<"1", "1", "1", "1", "-", "2", "2", "2", "2">>,
     <<"a", "1", "1", "1", "1", "-", "2", "2", "2", "2">>,
     <<"1", "1", "1", "1", "1", "-", "2", "2", "2", "2">>,
     <<"1", "1", "-", "a", "a", "a", "-", "1", "2", "1", "2">>}
DateValues == {Text(t) : t \in Texts \cup LongTexts} \cup {Null}

CallExtractYear ==
    /\ call = NoCall
    /\ \E date_value \in DateValues :
          call' = [op |-> "_extract_year", date_value |-> date_value,
                   ret |-> _extract_year(date_value)]
    /\ UNCHANGED <<gedcom, edits, cacheFile, currentFile, runVars>>

NextYear == CallExtractYear

SpecYear == Init /\ [][NextYear]_vars

----------------------------------------------------------------------------
(* SpecSample: select_family_id is called again and again with the same     *)
(* list and the same previous selection; call.seen collects the results.    *)
(* random.choice is fair: a result it can return is not avoided forever.    *)

SampleResults == {Return(id) : id \in IdPool} \cup {Raise("ValueError")}

InitSample ==
    /\ gedcom = SrcTwo
    /\ edits = 0
    /\ \E ids \in IdSeqs, last \in LastIds :
          call = [op |-> "sample", eligible_ids |-> ids, last_id |-> last, seen |-> {}]
    /\ cacheFile = MissingFile
    /\ currentFile = MissingFile
    /\ RunIdle

\* one more call, which returns r
SampleReturns(r) ==
    /\ r \in select_family_id(call.eligible_ids, call.last_id)
    /\ call' = [call EXCEPT !.seen = @ \cup {r}]
    /\ UNCHANGED <<gedcom, edits, cacheFile, currentFile, runVars>>

Sample == \E r \in SampleResults : SampleReturns(r)

NextSample == Sample

SpecSample ==
    /\ InitSample
    /\ [][NextSample]_vars
    /\ \A r \in SampleResults : WF_vars(SampleReturns(r))

----------------------------------------------------------------------------
(* Claims about run(), checked under Spec *)

IdSet(fams) == {fams[i].id : i \in 1..Len(fams)}

HasLastId(file) ==
    /\ file.kind = "json"
    /\ IsDict(file.value)
    /\ "last_family_id" \in DOMAIN file.value

C1_Step ==
    /\ (/\ pc = "write_open"
        /\ pc' = "write_close"
        /\ HasLastId(currentFile)
        /\ Cardinality(IdSet(families)) >= 2)
          => selected_id # currentFile.value.last_family_id
    /\ (pc = "write_close" /\ pc' = "idle")
          => /\ HasLastId(currentFile')
             /\ currentFile'.value.last_family_id = selected_id

\* C1: a run that completes with two or more distinct ids in its family list
\* replaces the last_family_id it finds in current.json, which the previous
\* successful run left there, by a different one.
C1_NoImmediateRepeat == [][C1_Step]_vars

\* C1 witness: a run on the cached list is about to write an id that differs
\* from the one it read from current.json, which is an id of the list.
C1_Witness ==
    /\ pc = "write_close"
    /\ parsed = Null
    /\ Cardinality(IdSet(families)) >= 2
    /\ last_id \in IdSet(families)
    /\ selected_id # last_id

\* The run in progress found a cache whose stored hash is the hash of the
\* source as it read it.
CacheHit ==
    \/ /\ pc = "load"
       /\ cacheFile.kind = "json"
       /\ IsDict(cacheFile.value)
       /\ GetStr(cacheFile.value, "gedcom_hash") = current_hash
    \/ /\ pc \notin {"idle", "load"}
       /\ IsDict(cache)
       /\ GetStr(cache, "gedcom_hash") = current_hash

C3_Step ==
    CacheHit =>
        /\ cacheFile' = cacheFile
        /\ parsed' = Null
        /\ pc' \notin {"parse", "save_open", "save_write"}
        /\ pc' \in {"read_last", "select", "write_open", "write_close"}
              => families' = cache'.families

\* C3: a run that starts with a cache whose stored hash equals the hash of
\* the source never writes families.json and never parses the source; its
\* family list is the cache's.
C3_CacheHitWritesNoCache == [][C3_Step]_vars

\* C3 witness: such a run has opened current.json for writing, with
\* families.json still holding what was loaded.
C3_Witness ==
    /\ pc = "write_close"
    /\ CacheHit
    /\ parsed = Null
    /\ cacheFile = JsonFile(cache)
    /\ currentFile = EmptyFile

\* The cache the run loaded stores the hash of another content than the
\* source has now.
CacheStale ==
    /\ IsDict(cache)
    /\ "gedcom_hash" \in DOMAIN cache
    /\ cache.gedcom_hash # current_hash

C4_Step ==
    (pc = "write_close" /\ pc' = "idle" /\ CacheStale) =>
        /\ parsed # Null
        /\ cacheFile.kind = "json"
        /\ DOMAIN cacheFile.value = {"gedcom_hash", "families"}
        /\ cacheFile.value.gedcom_hash = current_hash
        /\ cacheFile.value.gedcom_hash # cache.gedcom_hash
        /\ LET ids == get_eligible_ids(parsed)
               entries == cacheFile.value.families
           IN  /\ Len(entries) = Len(ids)
               /\ \A i \in 1..Len(ids) : entries[i] = get_family(parsed, ids[i])

\* C4: a successful run that found a cache built from another content leaves
\* families.json holding one record with the new hash, different from the
\* old one, and one entry per eligible id of the source, in eligibility order.
C4_StaleCacheRegenerated == [][C4_Step]_vars

\* C4 witness: a run that loaded a cache written for another content has
\* saved the new record, of two entries or more.
C4_Witness ==
    /\ pc = "write_close"
    /\ CacheStale
    /\ cache.gedcom_hash \in Range(Digests)
    /\ cacheFile = JsonFile(cache_record(current_hash, families))
    /\ Len(families) >= 2

Malformed(file) ==
    \/ file.kind \in {"missing", "empty", "partial", "garbage", "unreadable"}
    \/ /\ file.kind = "json"
       /\ \/ ~IsDict(file.value)
          \/ "gedcom_hash" \notin DOMAIN file.value
          \/ "families" \notin DOMAIN file.value

\* C5: whatever missing, unreadable, unparsable or malformed cache file a run
\* loads, it goes on to the rebuild: it neither fails nor uses the file.
C5_MalformedIsMiss ==
    [][(pc = "load" /\ pc' # "load" /\ Malformed(cacheFile)) => pc' = "parse"]_vars

\* C7: families.json never holds an empty or partially written text: a
\* reader sees the complete previous content or the complete new one.
C7_AtomicSave == cacheFile.kind \notin {"empty", "partial"}

----------------------------------------------------------------------------
(* Claims about the pure functions, checked under SpecPure *)

\* C2: with two or more ids, the results select_family_id can return are
\* exactly the ids that differ from last_id, or the whole list when there are
\* none; the result is a member of the list, and is not last_id when the
\* list holds two distinct ids.
C2_SelectorResults ==
    (call.op = "select_family_id" /\ Len(call.eligible_ids) >= 2) =>
        LET ids == call.eligible_ids
            others == Range(ids) \ {call.last_id}
            expected == IF others # {} THEN others ELSE Range(ids)
        IN  /\ select_family_id(ids, call.last_id) = {Return(id) : id \in expected}
            /\ ~IsRaise(call.ret)
            /\ call.ret.ret \in expected
            /\ call.ret.ret \in Range(ids)
            /\ Cardinality(Range(ids)) >= 2 => call.ret.ret # call.last_id

\* C2 witness: a call with three ids, the previous selection among them
\* twice, returned another id.
C2_Witness ==
    /\ call.op = "select_family_id"
    /\ Len(call.eligible_ids) = 3
    /\ Cardinality({i \in 1..3 : call.eligible_ids[i] = call.last_id}) = 2
    /\ ~IsRaise(call.ret)
    /\ call.ret.ret # call.last_id

\* C6: is_cache_valid returns true if and only if the file held a record
\* whose gedcom_hash equals the hash; on what load_cache returns for a file
\* it could not load, it returns false.
C6_ValidIffHashEqual ==
    call.op = "is_cache_valid" =>
        /\ (call.ret = Return(TRUE)) <=>
              /\ call.file.kind = "json"
              /\ IsDict(call.file.value)
              /\ "gedcom_hash" \in DOMAIN call.file.value
              /\ call.file.value.gedcom_hash = call.current_hash
        /\ call.file.kind \in {"missing", "empty", "partial", "garbage"}
              => call.ret = Return(FALSE)

\* C6 witness: is_cache_valid returned true on a loaded record.
C6_Witness ==
    /\ call.op = "is_cache_valid"
    /\ call.file.kind = "json"
    /\ call.ret = Return(TRUE)

----------------------------------------------------------------------------
(* Claims about eligibility and assembly, checked under SpecGraph *)

G == gedcom.graph

\* The four rules of eligibility as the specification words them, a reference
\* that does not resolve to a record of the file counting as absent.
OtherParty(g, P, F) ==
    IF P = g.families[F].husb THEN g.families[F].wife
    ELSE IF P = g.families[F].wife THEN g.families[F].husb
    ELSE None

KnownParents(g, P) ==
    IF P \in DOMAIN g.individuals /\ g.individuals[P].famc \in DOMAIN g.families
    THEN {g.families[g.individuals[P].famc].husb,
          g.families[g.individuals[P].famc].wife} \cap DOMAIN g.individuals
    ELSE {}

FourRules(g, P) ==
    /\ g.individuals[P].fams # <<>>
    /\ LET F == g.individuals[P].fams[1]
       IN  /\ F \in DOMAIN g.families
           /\ g.families[F].children # <<>>
           /\ OtherParty(g, P, F) \in DOMAIN g.individuals
           /\ KnownParents(g, P) \cup KnownParents(g, OtherParty(g, P, F)) # {}

\* C8: an individual is returned by get_eligible_ids if and only if the four
\* rules hold of it (first spousal family, a child in it, a known spouse as
\* its other party, a known parent on either side).
C8_EligibleIffFourRules ==
    call.op = "get_eligible_ids" =>
        \A P \in DOMAIN G.individuals : (P \in Range(call.ret)) <=> FourRules(G, P)

\* C9: get_family fails if and only if the id is missing from the individual
\* map; for an id of the map it returns an entry, whatever references dangle.
C9_FailsIffMissing ==
    call.op = "get_family" =>
        /\ IsRaise(call.ret) <=> call.person_id \notin DOMAIN G.individuals
        /\ ~IsRaise(call.ret) => call.ret.id = call.person_id

\* C9 witness: get_family returned an entry for a person whose first spousal
\* family does not resolve and whose parental family does not resolve.
C9_Witness ==
    /\ call.op = "get_family"
    /\ call.person_id \in DOMAIN G.individuals
    /\ G.individuals[call.person_id].fams # <<>>
    /\ G.individuals[call.person_id].fams[1] \notin DOMAIN G.families
    /\ G.individuals[call.person_id].famc \in Fam \ DOMAIN G.families
    /\ ~IsRaise(call.ret)

PersonKeys == {"first_name", "last_name", "birth", "death"}
IsSnapshot(v) == DOMAIN v = PersonKeys
IsSnapshotOrNull(v) == v = Null \/ IsSnapshot(v)

\* The fixed slots of an entry: explicit keys holding a snapshot or null
FixedSlots(e) ==
    /\ DOMAIN e = {"id", "subject", "spouse", "subject_parents", "spouse_parents",
                   "children"}
    /\ IsSnapshot(e.subject)
    /\ IsSnapshotOrNull(e.spouse)
    /\ DOMAIN e.subject_parents = {"father", "mother"}
    /\ DOMAIN e.spouse_parents = {"father", "mother"}
    /\ IsSnapshotOrNull(e.subject_parents.father)
    /\ IsSnapshotOrNull(e.subject_parents.mother)
    /\ IsSnapshotOrNull(e.spouse_parents.father)
    /\ IsSnapshotOrNull(e.spouse_parents.mother)

\* C10 as stated: every person slot, the paired-spouse slot of each
\* child-entry included, is an explicit key holding a snapshot or null.
C10_Original ==
    (call.op = "get_family" /\ ~IsRaise(call.ret)) =>
        /\ FixedSlots(call.ret)
        /\ \A i \in 1..Len(call.ret.children) :
              /\ "second" \in DOMAIN call.ret.children[i]
              /\ IsSnapshotOrNull(call.ret.children[i].second)

\* C10 amended: the subject is non-null and spouse and the four parent slots
\* are explicit keys holding a snapshot or null; a child-entry always holds
\* first, and its paired-spouse slot second is either omitted or a snapshot,
\* never null.
C10_ExplicitSlots ==
    (call.op = "get_family" /\ ~IsRaise(call.ret)) =>
        /\ FixedSlots(call.ret)
        /\ \A i \in 1..Len(call.ret.children) :
              LET c == call.ret.children[i]
              IN  /\ "first" \in DOMAIN c
                  /\ DOMAIN c \subseteq {"first", "second"}
                  /\ "second" \in DOMAIN c => IsSnapshot(c.second)

\* C10 witness: an entry with a null spouse, a null parent, a child-entry
\* with a paired spouse and a child-entry without one.
C10_Witness ==
    /\ call.op = "get_family"
    /\ ~IsRaise(call.ret)
    /\ call.ret.spouse = Null
    /\ call.ret.subject_parents.mother = Null
    /\ \E i, j \in 1..Len(call.ret.children) :
          /\ "second" \in DOMAIN call.ret.children[i]
          /\ "second" \notin DOMAIN call.ret.children[j]

\* The first spousal family of an individual, when it resolves
HasFirstFamily(g, P) ==
    /\ g.individuals[P].fams # <<>>
    /\ g.individuals[P].fams[1] \in DOMAIN g.families
FirstFamily(g, P) == g.families[g.individuals[P].fams[1]]

\* The display projection of an individual of the graph
Snapshot(g, P) ==
    [first_name |-> g.individuals[P].first_name,
     last_name |-> g.individuals[P].last_name,
     birth |-> g.individuals[P].birth,
     death |-> g.individuals[P].death]
ChildSnapshot(g, P) == Snapshot(g, P) @@ [child |-> TRUE]

\* The child references of a list that name a record of the file, in order
KnownChildren(g, refs) == SelectSeq(refs, LAMBDA c : c \in DOMAIN g.individuals)

\* C11 as stated: the children sequence has the length of the family's child
\* list, and its i-th entry is the snapshot of the i-th child reference.
C11_Original ==
    (/\ call.op = "get_family"
     /\ ~IsRaise(call.ret)
     /\ HasFirstFamily(G, call.person_id)) =>
        LET refs == FirstFamily(G, call.person_id).children
        IN  /\ Len(call.ret.children) = Len(refs)
            /\ \A i \in 1..Len(refs) :
                  /\ refs[i] \in DOMAIN G.individuals
                  /\ call.ret.children[i].first = ChildSnapshot(G, refs[i])

\* C11 amended: the children sequence is the sequence of the snapshots of
\* the child references of the first spousal family that name a known
\* individual, in the order of the family's child list, repeated references
\* included; references that do not resolve are skipped, and the sequence is
\* empty when the subject has no first spousal family that resolves.
C11_ChildrenInSourceOrder ==
    (call.op = "get_family" /\ ~IsRaise(call.ret)) =>
        LET known == IF HasFirstFamily(G, call.person_id)
                     THEN KnownChildren(G, FirstFamily(G, call.person_id).children)
                     ELSE <<>>
        IN  /\ Len(call.ret.children) = Len(known)
            /\ \A i \in 1..Len(known) :
                  call.ret.children[i].first = ChildSnapshot(G, known[i])

\* C11 witness: a family of three child references, one of which names no
\* record, gave two entries for two different children.
C11_Witness ==
    /\ call.op = "get_family"
    /\ ~IsRaise(call.ret)
    /\ HasFirstFamily(G, call.person_id)
    /\ Len(FirstFamily(G, call.person_id).children) = 3
    /\ Len(call.ret.children) = 2
    /\ call.ret.children[1].first # call.ret.children[2].first

\* The child has a first spousal family that resolves and whose other party
\* names a known individual.
HasPairedSpouse(g, c) ==
    /\ HasFirstFamily(g, c)
    /\ OtherParty(g, c, g.individuals[c].fams[1]) \in DOMAIN g.individuals

Unmarked(v) == v = Null \/ "child" \notin DOMAIN v

\* C12: each child-entry holds the child's snapshot with the child marker
\* true; it holds a paired spouse snapshot if and only if the child's first
\* spousal family resolves and its other party is a known individual, and
\* then the snapshot of that individual; neither the paired spouse nor the
\* subject, spouse and parent snapshots carry the child marker.
C12_ChildEntries ==
    (call.op = "get_family" /\ ~IsRaise(call.ret)) =>
        LET e == call.ret
            known == IF HasFirstFamily(G, call.person_id)
                     THEN KnownChildren(G, FirstFamily(G, call.person_id).children)
                     ELSE <<>>
        IN  /\ Len(e.children) = Len(known)
            /\ \A i \in 1..Len(known) :
                  LET c == known[i]
                      entry == e.children[i]
                  IN  /\ "child" \in DOMAIN entry.first
                      /\ entry.first.child = TRUE
                      /\ "second" \in DOMAIN entry <=> HasPairedSpouse(G, c)
                      /\ "second" \in DOMAIN entry =>
                            entry.second =
                                Snapshot(G, OtherParty(G, c, G.individuals[c].fams[1]))
            /\ Unmarked(e.subject)
            /\ Unmarked(e.spouse)
            /\ Unmarked(e.subject_parents.father)
            /\ Unmarked(e.subject_parents.mother)
            /\ Unmarked(e.spouse_parents.father)
            /\ Unmarked(e.spouse_parents.mother)

\* C12 witness: an entry with a child paired with its spouse and a child left
\* alone because the other party of its first spousal family names no record.
C12_Witness ==
    /\ call.op = "get_family"
    /\ ~IsRaise(call.ret)
    /\ HasFirstFamily(G, call.person_id)
    /\ LET known == KnownChildren(G, FirstFamily(G, call.person_id).children)
       IN  /\ Len(call.ret.children) = Len(known)
           /\ \E i, j \in 1..Len(known) :
                 /\ "second" \in DOMAIN call.ret.children[i]
                 /\ "second" \notin DOMAIN call.ret.children[j]
                 /\ HasFirstFamily(G, known[j])
                 /\ OtherParty(G, known[j], G.individuals[known[j]].fams[1])
                       \in Ind \ DOMAIN G.individuals

\* The graph with every spousal-family reference but the first removed
FirstOnly(g) ==
    [g EXCEPT !.individuals =
        [p \in DOMAIN g.individuals |->
            [g.individuals[p] EXCEPT !.fams = IF @ = <<>> THEN <<>> ELSE <<@[1]>>]]]

\* C20: the spouse of get_family(P) is the snapshot of the other party of
\* P's first spousal family, and null if that family is unknown, if P is
\* neither its husband nor its wife or if the other party is unknown; there
\* are no children if that family is unknown; an eligible individual has a
\* first spousal family with a child and another party; and neither
\* get_family nor get_eligible_ids depends on any later spousal family.
C20_FirstFamilyOnly ==
    /\ (call.op = "get_family" /\ ~IsRaise(call.ret)) =>
          LET P == call.person_id
          IN  /\ call.ret.spouse =
                    IF /\ HasFirstFamily(G, P)
                       /\ OtherParty(G, P, G.individuals[P].fams[1])
                             \in DOMAIN G.individuals
                    THEN Snapshot(G, OtherParty(G, P, G.individuals[P].fams[1]))
                    ELSE Null
              /\ ~HasFirstFamily(G, P) => call.ret.children = <<>>
              /\ call.ret = get_family(FirstOnly(G), P)
    /\ call.op = "get_eligible_ids" =>
          /\ call.ret = get_eligible_ids(FirstOnly(G))
          /\ \A i \in 1..Len(call.ret) :
                LET P == call.ret[i]
                IN  /\ HasFirstFamily(G, P)
                    /\ FirstFamily(G, P).children # <<>>
                    /\ OtherParty(G, P, G.individuals[P].fams[1])
                          \in DOMAIN G.individuals

\* C20 witness: the first spousal family of the subject gives no spouse and
\* no child while a later one names the subject, a known other party and a
\* child; the entry has a null spouse and no children.
C20_Witness ==
    /\ call.op = "get_family"
    /\ ~IsRaise(call.ret)
    /\ call.ret.spouse = Null
    /\ call.ret.children = <<>>
    /\ LET P == call.person_id
           fams == G.individuals[P].fams
       IN  \E k \in 2..Len(fams) :
              /\ fams[k] \in DOMAIN G.families
              /\ OtherParty(G, P, fams[k]) \in DOMAIN G.individuals
              /\ KnownChildren(G, G.families[fams[k]].children) # <<>>

\* C21: the entry get_family builds for an id that get_eligible_ids returns
\* has a spouse, at least one child-entry and at least one parent, on
\* either side, that is not null.
C21_EligibleEntriesComplete ==
    call.op = "get_eligible_ids" =>
        \A i \in 1..Len(call.ret) :
            LET e == get_family(G, call.ret[i])
            IN  /\ ~IsRaise(e)
                /\ e.spouse # Null
                /\ e.children # <<>>
                /\ \/ e.subject_parents.father # Null
                   \/ e.subject_parents.mother # Null
                   \/ e.spouse_parents.father # Null
                   \/ e.spouse_parents.mother # Null

----------------------------------------------------------------------------
(* Claims about the previous selection, failing runs and the selector's    *)
(* precondition, checked under Spec                                        *)

\* A current.json that is missing, empty, partially written, not JSON, JSON
\* that is not a record, or a record without last_family_id
NoPreviousSelection(file) ==
    \/ file.kind \in {"missing", "empty", "partial", "garbage"}
    \/ /\ file.kind = "json"
       /\ \/ ~IsDict(file.value)
          \/ "last_family_id" \notin DOMAIN file.value

\* C13: whatever such content the run finds in current.json, reading the
\* previous selection does not end the run: it goes on to the selection
\* with no previous id.
C13_ReadLastNeverFails ==
    [][(pc = "read_last" /\ pc' # "read_last" /\ NoPreviousSelection(currentFile))
          => (pc' = "select" /\ last_id' = None)]_vars

\* The run in progress has opened families.json or current.json for writing
WroteFiles ==
    \/ parsed # Null /\ pc \in {"save_write", "read_last", "select", "write_open",
                                 "write_close"}
    \/ pc = "write_close"

\* the projection of one of the run's entries, with its last_family_id
CompleteSnapshot(file) ==
    /\ HasLastId(file)
    /\ DOMAIN file.value = {"last_family_id", "subject", "spouse", "subject_parents",
                            "spouse_parents", "children"}

\* C14: a run that ends in failure has opened neither families.json nor
\* current.json for writing, and a run that completes leaves a complete
\* snapshot in current.json.
C14_NoPartialSuccess ==
    [][(pc # "idle" /\ pc' = "idle") =>
          IF outcome' = "ok"
          THEN CompleteSnapshot(currentFile')
          ELSE ~WroteFiles /\ cacheFile' = cacheFile /\ currentFile' = currentFile]_vars

\* C15: select_family_id is never invoked with zero candidates, by either
\* entry point, on the rebuilt list or on the cached one.
C15_SelectorNeverEmpty == pc = "select" => family_ids(families) # <<>>

----------------------------------------------------------------------------
(* Claims about select_family_id, family_to_current and _extract_year,     *)
(* checked under SpecPure, SpecSample and SpecYear                         *)

\* C16: select_family_id called with exactly one id returns that id and
\* nothing else, whatever last_id is: absent, another id, or that very id.
C16_SingleIdReturned ==
    (call.op = "select_family_id" /\ Len(call.eligible_ids) = 1) =>
        /\ call.ret = Return(call.eligible_ids[1])
        /\ select_family_id(call.eligible_ids, call.last_id)
              = {Return(call.eligible_ids[1])}

\* C16 witness: the single id was the previous selection and was returned.
C16_Witness ==
    /\ call.op = "select_family_id"
    /\ Len(call.eligible_ids) = 1
    /\ call.last_id = call.eligible_ids[1]
    /\ call.ret = Return(call.last_id)

\* C17: with a list of three ids or more and no previous selection, repeated
\* calls eventually return every id of the list, hence more than one
\* distinct result as soon as the list holds two distinct ids.
C17_EventuallyDistinct ==
    (/\ call.op = "sample"
     /\ Len(call.eligible_ids) >= 3
     /\ call.last_id = None)
        ~> (/\ call.seen = {Return(id) : id \in Range(call.eligible_ids)}
            /\ Cardinality(Range(call.eligible_ids)) >= 2
                  => Cardinality(call.seen) >= 2)

\* C17 witness: calls on three distinct ids without a previous selection
\* have returned two different ids.
C17_Witness ==
    /\ call.op = "sample"
    /\ Len(call.eligible_ids) = 3
    /\ Cardinality(Range(call.eligible_ids)) = 3
    /\ call.last_id = None
    /\ Cardinality(call.seen) = 2

\* the projection undone: last_family_id renamed back to id
RenameBack(current) ==
    Without(current, "last_family_id") @@ [id |-> current["last_family_id"]]

\* C18: family_to_current(e) has no id key, has last_family_id equal to
\* e's id, and has every other field of e with its value and no further
\* field; renaming last_family_id back to id gives e again.
C18_ProjectionRoundTrip ==
    call.op = "family_to_current" =>
        LET e == call.family
            c == call.ret
        IN  /\ "id" \notin DOMAIN c
            /\ "last_family_id" \in DOMAIN c
            /\ c["last_family_id"] = e["id"]
            /\ DOMAIN c = (DOMAIN e \ {"id"}) \cup {"last_family_id"}
            /\ \A k \in DOMAIN e \ {"id"} : c[k] = e[k]
            /\ RenameBack(c)["id"] = e["id"]
            /\ RenameBack(c) = e

\* C18 witness: the projection of an entry with children and a null parent.
C18_Witness ==
    /\ call.op = "family_to_current"
    /\ call.family.children # <<>>
    /\ call.family.subject_parents.mother = Null
    /\ call.ret.children = call.family.children
    /\ call.ret["last_family_id"] = "I1"

\* The first maximal run of digits of length four, as the specification
\* words the extraction
DigitRunStarts(s) ==
    {i \in 1..Len(s) :
        /\ i + 3 <= Len(s)
        /\ \A j \in i..(i + 3) : IsDigit(s[j])
        /\ i > 1 => ~IsDigit(s[i - 1])
        /\ i + 4 <= Len(s) => ~IsDigit(s[i + 4])}

FirstRunOfFour(s) ==
    IF DigitRunStarts(s) = {} THEN Null
    ELSE LET first == CHOOSE i \in DigitRunStarts(s) : \A j \in DigitRunStarts(s) : i <= j
         IN  Text(SubSeq(s, first, first + 3))

\* C19: _extract_year returns the first run of exactly four digits of the
\* date text, whatever characters surround the run, and absent when the
\* text holds no such run.
C19_FirstRunOfFourDigits ==
    (call.op = "_extract_year" /\ call.date_value # Null) =>
        call.ret = FirstRunOfFour(call.date_value.text)

----------------------------------------------------------------------------
(* Claim about the cache across runs, checked under SpecRuns               *)

\* the content a digest was computed from
SourceOfHash(hash) ==
    SourceSeq[CHOOSE i \in 1..Len(SourceSeq) : Digests[i] = hash]

DistinctIds(fams) ==
    \A i, j \in 1..Len(fams) : fams[i].id = fams[j].id => i = j

C22_Step ==
    (pc = "write_close" /\ pc' = "idle" /\ outcome' = "ok") =>
        /\ cacheFile' = cacheFile
        /\ cacheFile.kind = "json"
        /\ DOMAIN cacheFile.value = {"gedcom_hash", "families"}
        /\ LET stored == cacheFile.value
               full == rebuild(SourceOfHash(stored.gedcom_hash))
           IN  /\ stored.gedcom_hash = current_hash
               /\ stored.families # <<>>
               /\ DistinctIds(stored.families)
               /\ ~IsRaise(full)
               /\ full = Return(stored.families)
               /\ selected_id \in IdSet(stored.families)
               /\ currentFile' =
                     JsonFile(family_to_current(
                                 selected_family(stored.families, selected_id)))

\* C22: at the end of every successful run, families.json stores the hash
\* the run computed of the source together with a non-empty list of entries
\* of pairwise distinct ids, which is the full rebuild of the source of that
\* hash, and current.json holds the projection of the cached entry whose id
\* was selected.
C22_CacheConsistent == [][C22_Step]_vars

====
